---- MODULE Spec2Model ----
(***************************************************************************)
(* AI Resume Tailoring Assistant: the markdown-to-PDF renderers            *)
(* (src/app.py, src/utils/pdf_generator.py) and the Streamlit request that *)
(* validates the form, runs the four-task crew and shows the results       *)
(* (src/app.py).                                                           *)
(*                                                                         *)
(* Text is a sequence of one-character strings, so that strip, startswith, *)
(* slicing, split, replace and the numbered-list regular expression are    *)
(* computed character by character as Python computes them.                *)
(***************************************************************************)
EXTENDS Naturals, Sequences, FiniteSets

VARIABLES
    \* ---- renderer run (one call of markdown_to_ats_pdf) ----
    fn,         \* which function runs: "app" (src/app.py) or "gen" (src/utils/pdf_generator.py)
    fileState,  \* the markdown file: "ok", "missing" or "unreadable"
    content,    \* the characters of the markdown file
    pcR,        \* position of the call
    lines,      \* content.split('\n')
    idx,        \* number of lines the loop has consumed
    story,      \* the flowables appended so far
    result,     \* the returned value
    rlog,       \* messages the call reported (st.error / print)
    \* ---- the process and the file system ----
    secrets,    \* st.secrets: whether a secrets file exists, and name -> value
    environ,    \* os.environ, the variables the script reads or writes
    files,      \* the working directory: file name -> content or NoValue
    agents,     \* st.cache_resource: the run that created the cached agents, 0 for none
    peer,       \* the script run of another browser session served by the same process
    \* ---- one script run (a Streamlit request) ----
    pc,         \* position of the script run
    run,        \* number of script runs started
    GROQ_API_KEY,
    SERPER_API_KEY,
    form,       \* the widget values of this run
    resume_path,
    shown,      \* what this run has put on the page
    written,    \* names of the files this run has written
    crewCalled, \* whether this run has called run_crew
    \* ---- the crew of this run ----
    task,       \* task -> "pending", "running", "done" or "failed"
    out,        \* task -> its output, once done
    ctx,        \* task -> the context outputs it was started with
    terr,       \* task -> the error it raised, once failed
    order       \* the tasks in the order they finished

rvars == <<fn, fileState, content, pcR, lines, idx, story, result, rlog>>
procvars == <<secrets, environ, files, agents, peer>>
reqvars == <<pc, run, GROQ_API_KEY, SERPER_API_KEY, form, resume_path, shown,
             written, crewCalled>>
crewvars == <<task, out, ctx, terr, order>>
avars == <<procvars, reqvars, crewvars>>
vars == <<rvars, avars>>

-----------------------------------------------------------------------------
(* Bounds *)

\* longest enumerated markdown content, in characters
MaxLen == 3

\* script runs in one behaviour
MaxRuns == 2

\* script runs of this session in a behaviour that has another session
MaxSharedRuns == 1

-----------------------------------------------------------------------------
(* Characters and Python's string operations *)

NL == "\n"
SP == " "
\* the bullet glyph, one character
BULLET == "(bullet)"

Digits == {"1"}
Whitespace == {SP, NL}
Chars == {"#", "-", "*", "_", SP, "a", "1", ".", NL}

RECURSIVE LStrip(_)
LStrip(s) == IF s = <<>> THEN s
             ELSE IF Head(s) \in Whitespace THEN LStrip(Tail(s)) ELSE s

RECURSIVE RStrip(_)
RStrip(s) == IF s = <<>> THEN s
             ELSE IF s[Len(s)] \in Whitespace THEN RStrip(SubSeq(s, 1, Len(s) - 1)) ELSE s

\* str.strip()
Strip(s) == RStrip(LStrip(s))

\* str.startswith(p)
StartsWith(s, p) == Len(s) >= Len(p) /\ SubSeq(s, 1, Len(p)) = p

\* s[n:]
From(s, n) == SubSeq(s, n + 1, Len(s))

\* the segments between newlines: always at least one; a trailing newline
\* yields a final empty segment
RECURSIVE SplitNL(_, _)
SplitNL(s, cur) ==
    IF s = <<>> THEN <<cur>>
    ELSE IF Head(s) = NL THEN <<cur>> \o SplitNL(Tail(s), <<>>)
    ELSE SplitNL(Tail(s), Append(cur, Head(s)))

\* a split that drops a final empty segment, as str.splitlines() does
SplitLines(s) ==
    LET segs == SplitNL(s, <<>>)
    IN  IF segs[Len(segs)] = <<>> THEN SubSeq(segs, 1, Len(segs) - 1) ELSE segs

\* str.split('\n')
Split(s) == SplitNL(s, <<>>)

\* iterating a text file: the lines of the file, without a final empty one
FileLines(s) ==
    LET segs == Split(s)
    IN  IF segs[Len(segs)] = <<>> THEN SubSeq(segs, 1, Len(segs) - 1) ELSE segs

\* str.replace(p, ''): non-overlapping occurrences, left to right
RECURSIVE Remove(_, _)
Remove(s, p) ==
    IF s = <<>> THEN s
    ELSE IF StartsWith(s, p) THEN Remove(From(s, Len(p)), p)
    ELSE <<Head(s)>> \o Remove(Tail(s), p)

\* re.match(r'^\d+\. ', line)
MatchNumbered(s) ==
    \E k \in 1..Len(s) :
        /\ \A i \in 1..k : s[i] \in Digits
        /\ Len(s) >= k + 2
        /\ s[k + 1] = "."
        /\ s[k + 2] = SP

-----------------------------------------------------------------------------
(* Flowables and return values of the renderers *)

None == [kind |-> "None"]

Pdf(engine, st) == [kind |-> "pdf", engine |-> engine, story |-> st]

\* Spacer(1, h); kind is the branch that appended it and src the line it was
\* appended for
Spacer(h, kind, i) ==
    [flow |-> "Spacer", kind |-> kind, style |-> h, text |-> <<>>, src |-> i]

Paragraph(text, style, kind, i) ==
    [flow |-> "Paragraph", kind |-> kind, style |-> style, text |-> text, src |-> i]

-----------------------------------------------------------------------------
(* src/app.py markdown_to_ats_pdf: the loop body *)

\* the chain with the '#' tests made without their space
LineKindLoose(l) ==
    IF l = <<>> THEN "Blank"
    ELSE IF StartsWith(l, <<"#">>) THEN "Title"
    ELSE IF StartsWith(l, <<"#", "#">>) THEN "Heading"
    ELSE IF StartsWith(l, <<"#", "#", "#">>) THEN "SubHeading"
    ELSE IF StartsWith(l, <<"-", SP>>) \/ StartsWith(l, <<"*", SP>>) THEN "Bullet"
    ELSE IF MatchNumbered(l) THEN "NumberedItem"
    ELSE "Plain"

\* the branch of the if/elif chain the stripped line l takes
LineKind(l) ==
    IF l = <<>> THEN "Blank"
    ELSE IF StartsWith(l, <<"#", SP>>) THEN "Title"
    ELSE IF StartsWith(l, <<"#", "#", SP>>) THEN "Heading"
    ELSE IF StartsWith(l, <<"#", "#", "#", SP>>) THEN "SubHeading"
    ELSE IF StartsWith(l, <<"-", SP>>) \/ StartsWith(l, <<"*", SP>>) THEN "Bullet"
    ELSE IF MatchNumbered(l) THEN "NumberedItem"
    ELSE "Plain"

\* the text the branch computes
LineText(l) ==
    CASE LineKind(l) = "Blank"        -> <<>>
      [] LineKind(l) = "Title"        -> Strip(From(l, 2))
      [] LineKind(l) = "Heading"      -> Strip(From(l, 3))
      [] LineKind(l) = "SubHeading"   -> Strip(From(l, 4))
      [] LineKind(l) = "Bullet"       -> <<BULLET, SP>> \o Strip(From(l, 2))
      [] LineKind(l) = "NumberedItem" -> l
      [] LineKind(l) = "Plain"        ->
            Remove(Remove(Remove(Remove(l, <<"*", "*">>), <<"_", "_">>), <<"*">>), <<"_">>)

\* the style the branch passes to Paragraph
LineStyle(l) ==
    CASE LineKind(l) = "Title"      -> "title_style"
      [] LineKind(l) = "Heading"    -> "heading_style"
      [] LineKind(l) = "SubHeading" -> "subheading_style"
      [] OTHER                      -> "body_style"

\* what one iteration appends to story for line number i
LineFlowables(line, i) ==
    LET l == Strip(line)
    IN  IF LineKind(l) = "Blank" THEN <<Spacer("0.1*inch", "Blank", i)>>
        ELSE IF LineKind(l) = "Heading"
             THEN <<Spacer("0.15*inch", "Heading", i),
                    Paragraph(LineText(l), LineStyle(l), "Heading", i)>>
        ELSE <<Paragraph(LineText(l), LineStyle(l), LineKind(l), i)>>

\* an except clause that returns what was laid out so far
AppExceptPartial ==
    /\ rlog' = rlog \cup {"st.error: Error generating PDF"}
    /\ result' = Pdf("reportlab", story)
    /\ pcR' = "done"
    /\ UNCHANGED <<fn, fileState, content, lines, idx, story, avars>>

\* the except clause: st.error(...), return None; the locals are gone
AppExcept ==
    /\ rlog' = rlog \cup {"st.error: Error generating PDF"}
    /\ result' = None
    /\ lines' = <<>> /\ idx' = 0 /\ story' = <<>>
    /\ pcR' = "done"
    /\ UNCHANGED <<fn, fileState, content, avars>>

\* open(...).read() and content.split('\n')
AppRead ==
    /\ fn = "app" /\ pcR = "start"
    /\ IF fileState = "ok"
       THEN /\ lines' = Split(content)
            /\ pcR' = "loop"
            /\ UNCHANGED <<fn, fileState, content, idx, story, result, rlog, avars>>
       ELSE AppExcept

\* one iteration of  for line in lines
AppParseLine ==
    /\ fn = "app" /\ pcR = "loop" /\ idx < Len(lines)
    /\ story' = story \o LineFlowables(lines[idx + 1], idx + 1)
    /\ idx' = idx + 1
    /\ UNCHANGED <<fn, fileState, content, pcR, lines, result, rlog, avars>>

\* doc.build(story); return buffer.getvalue()
AppBuild ==
    /\ fn = "app" /\ pcR = "loop" /\ idx = Len(lines)
    /\ result' = Pdf("reportlab", story)
    /\ pcR' = "done"
    /\ UNCHANGED <<fn, fileState, content, lines, idx, story, rlog, avars>>

\* the layout engine raises (the reportlab import, Paragraph(), doc.build)
AppRaise ==
    /\ fn = "app" /\ pcR = "loop"
    /\ AppExcept

-----------------------------------------------------------------------------
(* src/utils/pdf_generator.py markdown_to_ats_pdf *)

\* the branch of the fallback's if/elif chain the stripped line l takes
FallbackKind(l) ==
    IF StartsWith(l, <<"#", SP>>) THEN "Heading1"
    ELSE IF StartsWith(l, <<"#", "#", SP>>) THEN "Heading2"
    ELSE IF StartsWith(l, <<"#", "#", "#", SP>>) THEN "Heading3"
    ELSE IF l # <<>> THEN "Normal"
    ELSE "None"

FallbackText(l) ==
    CASE FallbackKind(l) = "Heading1" -> From(l, 2)
      [] FallbackKind(l) = "Heading2" -> From(l, 3)
      [] FallbackKind(l) = "Heading3" -> From(l, 4)
      [] OTHER                        -> l

\* what one iteration of the fallback appends: the paragraph, if any, then
\* always a spacer
FallbackFlowables(line, i) ==
    LET l == Strip(line)
    IN  (IF FallbackKind(l) = "None" THEN <<>>
         ELSE <<Paragraph(FallbackText(l), FallbackKind(l), FallbackKind(l), i)>>)
        \o <<Spacer("0.1*inch", "Spacer", i)>>

\* the primary path: markdown.markdown + pdfkit.from_string succeed
GenPrimary ==
    /\ fn = "gen" /\ pcR = "start" /\ fileState = "ok"
    /\ result' = Pdf("pdfkit", <<>>)
    /\ pcR' = "done"
    /\ UNCHANGED <<fn, fileState, content, lines, idx, story, rlog, avars>>

\* the primary path raises (open, markdown, wkhtmltopdf): print and fall back
GenPrimaryRaise ==
    /\ fn = "gen" /\ pcR = "start"
    /\ rlog' = rlog \cup {"print: Error generating PDF"}
    /\ pcR' = "fallback"
    /\ UNCHANGED <<fn, fileState, content, lines, idx, story, result, avars>>

\* the inner except clause: print, return None
GenExcept ==
    /\ rlog' = rlog \cup {"print: Fallback PDF generation also failed"}
    /\ result' = None
    /\ lines' = <<>> /\ idx' = 0 /\ story' = <<>>
    /\ pcR' = "done"
    /\ UNCHANGED <<fn, fileState, content, avars>>

\* the fallback opens the file again
GenFallbackOpen ==
    /\ fn = "gen" /\ pcR = "fallback"
    /\ IF fileState = "ok"
       THEN /\ lines' = FileLines(content)
            /\ pcR' = "floop"
            /\ UNCHANGED <<fn, fileState, content, idx, story, result, rlog, avars>>
       ELSE GenExcept

\* one iteration of  for line in f
GenFallbackLine ==
    /\ fn = "gen" /\ pcR = "floop" /\ idx < Len(lines)
    /\ story' = story \o FallbackFlowables(lines[idx + 1], idx + 1)
    /\ idx' = idx + 1
    /\ UNCHANGED <<fn, fileState, content, pcR, lines, result, rlog, avars>>

\* doc.build(story); return buffer.getvalue()
GenFallbackBuild ==
    /\ fn = "gen" /\ pcR = "floop" /\ idx = Len(lines)
    /\ result' = Pdf("reportlab", story)
    /\ pcR' = "done"
    /\ UNCHANGED <<fn, fileState, content, lines, idx, story, rlog, avars>>

\* the fallback raises (the reportlab import, Paragraph(), doc.build)
GenFallbackRaise ==
    /\ fn = "gen" /\ pcR = "floop"
    /\ GenExcept

-----------------------------------------------------------------------------
(* The renderer's inputs *)

RECURSIVE SeqsUpTo(_, _)
SeqsUpTo(S, n) ==
    IF n = 0 THEN {<<>>}
    ELSE LET shorter == SeqsUpTo(S, n - 1)
         IN  shorter \cup {Append(s, c) : s \in {t \in shorter : Len(t) = n - 1}, c \in S}

\* Scenario A of the specification
ScenarioA ==
    <<"#", SP, "J", "o", "h", "n", SP, "D", "o", "e", NL,
      NL,
      "#", "#", SP, "E", "x", "p", "e", "r", "i", "e", "n", "c", "e", NL,
      "-", SP, "B", "u", "i", "l", "t", SP, "X", NL,
      "-", SP, "B", "u", "i", "l", "t", SP, "Y", NL>>

\* every recognized pattern once
AllPatterns ==
    <<"#", SP, "t", NL,
      NL,
      "#", "#", SP, "h", NL,
      "#", "#", "#", SP, "s", NL,
      "-", SP, "b", NL,
      "1", ".", SP, "n", NL,
      "p", "_", "q">>

\* lines whose markers sit beside words
Emphasis ==
    <<"-", SP, "*", "*", "B", "*", "*", SP, "x", NL,
      "s", "n", "a", "k", "e", "_", "c", "a", "s", "e", NL,
      "#", NL,
      "*", "*", "b", "*", "*", SP, "_", "i", "_">>

\* the line markers of the grammar, and near misses
Markers ==
    {<<"#", SP>>, <<"#", "#", SP>>, <<"#", "#", "#", SP>>, <<"#", "#", "#", "#", SP>>,
     <<"-", SP>>, <<"*", SP>>, <<"1", ".", SP>>, <<"1", "1", ".", SP>>}

Contents ==
    SeqsUpTo(Chars, MaxLen)
    \cup {m \o t : m \in Markers, t \in SeqsUpTo(Chars, MaxLen - 1)}
    \cup {ScenarioA, AllPatterns, Emphasis}

-----------------------------------------------------------------------------
(* The process: secrets, environment, files *)

NoValue == "None"

KeyNames == {"GROQ_API_KEY", "SERPER_API_KEY"}

\* the options of the model selectbox, in order
Models ==
    <<"llama-3.3-70b-versatile", "llama-3.1-8b-instant", "mixtral-8x7b-32768",
      "gemma2-9b-it">>

\* the file_uploader's accepted types
Extensions == {"pdf", "docx", "doc"}

\* f"resume.{file_extension}"
ResumeFile(ext) ==
    CASE ext = "pdf" -> "resume.pdf"
      [] ext = "docx" -> "resume.docx"
      [] ext = "doc" -> "resume.doc"
TailoredResume == "tailored_resume.md"
InterviewMaterials == "interview_materials.md"

FileNames == {ResumeFile(e) : e \in Extensions} \cup {TailoredResume, InterviewMaterials}

\* a text as a file or a task holds it: who produced it, in which run
Text(r, producer, text) == [run |-> r, by |-> producer, text |-> text]

\* no file, no output
Absent == Text(0, "nobody", <<>>)

\* Python truthiness of an optional string
Truthy(v) == v # NoValue /\ v # ""

\* a lookup that prefers the environment variable
get_api_key_env_first(key_name) ==
    IF environ[key_name] # NoValue
    THEN environ[key_name]
    ELSE IF secrets.available THEN secrets.vals[key_name] ELSE NoValue

\* get_api_key(key_name): st.secrets[key_name], and os.getenv(key_name) when
\* that raises KeyError or FileNotFoundError
get_api_key(key_name) ==
    IF secrets.available /\ secrets.vals[key_name] # NoValue
    THEN secrets.vals[key_name]
    ELSE environ[key_name]

\* check_api_keys()
check_api_keys == ~(~Truthy(GROQ_API_KEY) \/ ~Truthy(SERPER_API_KEY))

\* a page element: the call, its label or message, the text put into the
\* message, the data it carries
Widget(w, name, arg, data) == [w |-> w, name |-> name, arg |-> arg, data |-> data]

-----------------------------------------------------------------------------
(* The script, top to the process button (src/app.py 92-427) *)

\* the environment without the write of line 418
EnvDefaultOnly(groq, serper, model) ==
    [n \in DOMAIN environ |->
        IF n = "OPENAI_MODEL_NAME"
        THEN (IF Truthy(groq) THEN Models[1] ELSE environ[n])
        ELSE IF n = "GROQ_API_KEY" /\ Truthy(groq) THEN groq
        ELSE IF n = "SERPER_API_KEY" /\ Truthy(serper) THEN serper
        ELSE environ[n]]

\* the environment after lines 107-114 and 418
EnvAfterTop(groq, serper, model) ==
    [n \in DOMAIN environ |->
        IF n = "OPENAI_MODEL_NAME" THEN model
        ELSE IF n = "GROQ_API_KEY" /\ Truthy(groq) THEN groq
        ELSE IF n = "SERPER_API_KEY" /\ Truthy(serper) THEN serper
        ELSE environ[n]]

\* the widget values a run can see
Forms ==
    [uploaded_file : {NoValue} \cup {"cv.pdf", "cv.docx"},
     job_posting_url : {"", "https://job"},
     github_url : {"", "https://github.com/u"},
     personal_writeup : {"", "about me"},
     model_choice : {Models[1], Models[2]},
     process_button : BOOLEAN]

\* uploaded_file.name.split('.')[-1]
FileExtension(name) == IF name = "cv.pdf" THEN "pdf" ELSE "docx"

\* tasks=[...] of the Crew, in order
Tasks ==
    <<"research_task", "profile_task", "resume_strategy_task",
      "interview_preparation_task">>

\* async_execution=True on the resume task as well
AsyncExecutionAlso(t) == t \in {"research_task", "profile_task", "resume_strategy_task"}

\* async_execution=True
AsyncExecution(t) == t \in {"research_task", "profile_task"}

\* context lists with the profiling task put first
ContextSwapped(t) ==
    CASE t = "resume_strategy_task" -> <<"profile_task", "research_task">>
      [] t = "interview_preparation_task" ->
            <<"profile_task", "research_task", "resume_strategy_task">>
      [] OTHER -> <<>>

\* context=[...]
Context(t) ==
    CASE t = "resume_strategy_task" -> <<"research_task", "profile_task">>
      [] t = "interview_preparation_task" ->
            <<"research_task", "profile_task", "resume_strategy_task">>
      [] OTHER -> <<>>

\* output_file given to the resume task only
OutputFileResumeOnly(t) ==
    CASE t = "resume_strategy_task" -> TailoredResume
      [] OTHER -> NoValue

\* output_file=...
OutputFile(t) ==
    CASE t = "resume_strategy_task" -> TailoredResume
      [] t = "interview_preparation_task" -> InterviewMaterials
      [] OTHER -> NoValue

TaskIndex(t) == CHOOSE i \in 1..Len(Tasks) : Tasks[i] = t

Earlier(t) == {Tasks[i] : i \in 1..(TaskIndex(t) - 1)}

\* what the language model can return for a task: for the resume task, markdown
TaskTexts(t) ==
    CASE t = "resume_strategy_task" -> {<<"#", SP, "a", NL, "-", SP, "b", NL>>}
      [] t = "research_task" -> {<<"j", "o", "b">>}
      [] t = "profile_task" -> {<<"m", "e">>}
      [] OTHER -> {<<"q", "1">>}

\* what the execution engine can raise
ErrorTexts == {"Error code: 429 rate limit", "empty response from LLM"}

TaskNames == {Tasks[i] : i \in 1..Len(Tasks)}

NoTasks(v) == [t \in TaskNames |-> v]

\* no call of markdown_to_ats_pdf is in progress
RIdle ==
    /\ fn = "app"
    /\ fileState = "ok"
    /\ content = <<>>
    /\ pcR = "done"
    /\ lines = <<>>
    /\ idx = 0
    /\ story = <<>>
    /\ result = None
    /\ rlog = {}

\* a new script run starts with no call behind it
RReset ==
    /\ fn' = "app"
    /\ fileState' = "ok"
    /\ content' = <<>>
    /\ pcR' = "done"
    /\ lines' = <<>>
    /\ idx' = 0
    /\ story' = <<>>
    /\ result' = None
    /\ rlog' = {}

\* a rerun of the script: the module-level key lookup, the sidebar with the
\* upload save block and the model selectbox, up to the process button
Rerun ==
    /\ pc = "idle" /\ run < MaxRuns
    /\ \E f \in Forms :
        LET groq == get_api_key("GROQ_API_KEY")
            serper == get_api_key("SERPER_API_KEY")
            path == IF f.uploaded_file # NoValue
                    THEN ResumeFile(FileExtension(f.uploaded_file)) ELSE NoValue
        IN  /\ form' = f
            /\ GROQ_API_KEY' = groq
            /\ SERPER_API_KEY' = serper
            /\ environ' = EnvAfterTop(groq, serper, f.model_choice)
            /\ resume_path' = path
            /\ IF f.uploaded_file # NoValue
               THEN /\ files' = [files EXCEPT ![path] = Text(run + 1, f.uploaded_file, <<>>)]
                    /\ written' = {path}
                    /\ shown' = {Widget("success", "File uploaded", f.uploaded_file, Absent)}
               ELSE /\ files' = files
                    /\ written' = {}
                    /\ shown' = {}
    /\ run' = run + 1
    /\ crewCalled' = FALSE
    /\ task' = NoTasks("pending")
    /\ out' = NoTasks(Absent)
    /\ ctx' = NoTasks(<<>>)
    /\ terr' = NoTasks(NoValue)
    /\ order' = <<>>
    /\ pc' = "main"
    /\ RReset
    /\ UNCHANGED <<secrets, agents, peer>>

-----------------------------------------------------------------------------
(* Main processing logic (src/app.py 590-628) *)

\* the chain without its GitHub branch
ValidationLax(f) ==
    IF f.uploaded_file = NoValue THEN "Please upload your resume (PDF or DOCX format)"
    ELSE IF f.job_posting_url = "" THEN "Please provide the job posting URL"
    ELSE IF f.personal_writeup = "" THEN "Please write a personal summary about yourself"
    ELSE "ok"

\* the validation chain: the error it reports, or "ok"
Validation(f) ==
    IF f.uploaded_file = NoValue THEN "Please upload your resume (PDF or DOCX format)"
    ELSE IF f.job_posting_url = "" THEN "Please provide the job posting URL"
    ELSE IF f.github_url = "" THEN "Please provide your GitHub profile URL"
    ELSE IF f.personal_writeup = "" THEN "Please write a personal summary about yourself"
    ELSE "ok"

\* the button was not pressed: the script runs to its end
NoProcess ==
    /\ pc = "main" /\ ~form.process_button
    /\ pc' = "idle"
    /\ UNCHANGED <<rvars, procvars, run, GROQ_API_KEY, SERPER_API_KEY, form,
                   resume_path, shown, written, crewCalled, crewvars>>

\* if not check_api_keys(): st.stop()
KeysMissing ==
    /\ pc = "main" /\ form.process_button
    /\ ~check_api_keys
    /\ shown' = shown \cup {Widget("error", "API keys not configured!", "", Absent)}
    /\ pc' = "idle"
    /\ UNCHANGED <<rvars, procvars, run, GROQ_API_KEY, SERPER_API_KEY, form,
                   resume_path, written, crewCalled, crewvars>>

\* one of the four st.error branches
ValidationError ==
    /\ pc = "main" /\ form.process_button
    /\ check_api_keys
    /\ Validation(form) # "ok"
    /\ shown' = shown \cup {Widget("error", Validation(form), "", Absent)}
    /\ pc' = "idle"
    /\ UNCHANGED <<rvars, procvars, run, GROQ_API_KEY, SERPER_API_KEY, form,
                   resume_path, written, crewCalled, crewvars>>

\* @st.cache_resource create_agents(): the agents are created by the first
\* call in the process and every later call returns the same objects
create_agents(caller) == IF agents = 0 THEN caller ELSE agents

\* the else branch: run_crew(job_posting_url, github_url, personal_writeup, resume_path),
\* up to the crew's kickoff
CallRunCrew ==
    /\ pc = "main" /\ form.process_button
    /\ check_api_keys
    /\ Validation(form) = "ok"
    /\ crewCalled' = TRUE
    /\ shown' = shown \cup {Widget("info", "AI Agents are analyzing", "", Absent)}
    /\ agents' = create_agents(run)
    /\ pc' = "crew"
    /\ UNCHANGED <<rvars, secrets, environ, files, peer, run, GROQ_API_KEY,
                   SERPER_API_KEY, form, resume_path, written, crewvars>>

\* the except clause of the main logic (720-724)
ExceptMessages(e) ==
    {Widget("error", "An error occurred", e, Absent),
     Widget("exception", "View Error Details", e, Absent),
     Widget("info", "Try checking your API keys or simplifying your inputs", "", Absent)}

-----------------------------------------------------------------------------
(* run_crew (src/app.py 487-586): the crew's execution *)

\* the engine dispatches the tasks in list order; a task that is not
\* async_execution first joins every task dispatched before it
StartTask(t) ==
    /\ pc = "crew"
    /\ task[t] = "pending"
    /\ \A u \in Earlier(t) : task[u] # "pending"
    /\ ~AsyncExecution(t) => \A u \in Earlier(t) : task[u] = "done"
    /\ task' = [task EXCEPT ![t] = "running"]
    /\ ctx' = [ctx EXCEPT ![t] = [i \in 1..Len(Context(t)) |-> out[Context(t)[i]]]]
    /\ UNCHANGED <<rvars, procvars, reqvars, out, terr, order>>

\* the task returns; a task with an output_file writes it
FinishTask(t) ==
    /\ pc = "crew"
    /\ task[t] = "running"
    /\ \E x \in TaskTexts(t) :
        LET o == Text(run, t, x)
        IN  /\ out' = [out EXCEPT ![t] = o]
            /\ IF OutputFile(t) # NoValue
               THEN /\ files' = [files EXCEPT ![OutputFile(t)] = o]
                    /\ written' = written \cup {OutputFile(t)}
               ELSE UNCHANGED <<files, written>>
    /\ task' = [task EXCEPT ![t] = "done"]
    /\ order' = Append(order, t)
    /\ UNCHANGED <<rvars, secrets, environ, agents, peer, pc, run, GROQ_API_KEY,
                   SERPER_API_KEY, form, resume_path, shown, crewCalled, ctx, terr>>

\* the task raises (rate limit, empty response, ...)
FailTask(t) ==
    /\ pc = "crew"
    /\ task[t] = "running"
    /\ \E e \in ErrorTexts : terr' = [terr EXCEPT ![t] = e]
    /\ task' = [task EXCEPT ![t] = "failed"]
    /\ UNCHANGED <<rvars, procvars, reqvars, out, ctx, order>>

\* the engine has reached the point where it joins task t: at once for a
\* synchronous task, and for an async one when the next synchronous task (or
\* the end of the list) is reached
JoinReached(t) ==
    \/ ~AsyncExecution(t)
    \/ LET later == {j \in (TaskIndex(t) + 1)..Len(Tasks) : ~AsyncExecution(Tasks[j])}
           stop == IF later = {} THEN Len(Tasks) + 1
                   ELSE CHOOSE j \in later : \A k \in later : j <= k
       IN  \A k \in 1..(stop - 1) : task[Tasks[k]] # "pending"

\* kickoff raises the error of a failed task; the except clause of the main
\* logic reports it
KickoffRaises ==
    /\ pc = "crew"
    /\ \E t \in DOMAIN task :
        /\ task[t] = "failed"
        /\ \A u \in Earlier(t) : task[u] = "done"
        /\ JoinReached(t)
        /\ shown' = shown \cup ExceptMessages(terr[t])
    /\ pc' = "idle"
    /\ UNCHANGED <<rvars, procvars, run, GROQ_API_KEY, SERPER_API_KEY, form,
                   resume_path, written, crewCalled, crewvars>>

\* kickoff returns: st.success and the tabs follow
KickoffReturns ==
    /\ pc = "crew"
    /\ \A t \in DOMAIN task : task[t] = "done"
    /\ shown' = shown \cup {Widget("success", "Your tailored resume and interview materials are ready!", "", Absent)}
    /\ pc' = "tab1"
    /\ UNCHANGED <<rvars, procvars, run, GROQ_API_KEY, SERPER_API_KEY, form,
                   resume_path, written, crewCalled, crewvars>>

-----------------------------------------------------------------------------
(* The result tabs (src/app.py 651-718) *)

Exists(f) == files[f] # Absent

\* tab1: the resume markdown and its download button
Tab1 ==
    /\ pc = "tab1"
    /\ shown' = shown \cup
         (IF Exists(TailoredResume)
          THEN {Widget("markdown", "Your Tailored Resume", "", files[TailoredResume]),
                Widget("download_button", TailoredResume, "", files[TailoredResume])}
          ELSE {Widget("warning", "Resume markdown file not generated", "", Absent)})
    /\ pc' = "tab2"
    /\ UNCHANGED <<rvars, procvars, run, GROQ_API_KEY, SERPER_API_KEY, form,
                   resume_path, written, crewCalled, crewvars>>

\* tab1: reading the file raises; the except clause of the main logic runs
Tab1ReadRaises ==
    /\ pc = "tab1"
    /\ Exists(TailoredResume)
    /\ shown' = shown \cup ExceptMessages("cannot read tailored_resume.md")
    /\ pc' = "idle"
    /\ UNCHANGED <<rvars, procvars, run, GROQ_API_KEY, SERPER_API_KEY, form,
                   resume_path, written, crewCalled, crewvars>>

\* tab2: markdown_to_ats_pdf("tailored_resume.md") is called when the file
\* exists; the call may find the file unreadable
Tab2 ==
    /\ pc = "tab2"
    /\ IF Exists(TailoredResume)
       THEN /\ fn' = "app"
            /\ fileState' \in {"ok", "unreadable"}
            /\ content' = files[TailoredResume].text
            /\ pcR' = "start"
            /\ lines' = <<>> /\ idx' = 0 /\ story' = <<>>
            /\ result' = None /\ rlog' = {}
            /\ pc' = "render"
            /\ UNCHANGED shown
       ELSE /\ shown' = shown \cup {Widget("warning", "Resume file not found", "", Absent)}
            /\ pc' = "tab3"
            /\ UNCHANGED rvars
    /\ UNCHANGED <<procvars, run, GROQ_API_KEY, SERPER_API_KEY, form,
                   resume_path, written, crewCalled, crewvars>>

\* the steps of the call
Rendering == pc = "render"

\* tab2, after the call: if pdf_bytes the download button, else st.error
Tab2Returns ==
    /\ pc = "render" /\ pcR = "done"
    /\ shown' = shown
         \cup {Widget("error", m, "", Absent) : m \in rlog}
         \cup (IF result.kind = "pdf"
               THEN {Widget("success", "ATS-friendly PDF generated successfully!", "", Absent),
                     Widget("download_button", "ATS_Tailored_Resume.pdf", "",
                            Text(run, "markdown_to_ats_pdf", content))}
               ELSE {Widget("error", "Failed to generate PDF", "", Absent)})
    /\ pc' = "tab3"
    /\ UNCHANGED <<rvars, procvars, run, GROQ_API_KEY, SERPER_API_KEY, form,
                   resume_path, written, crewCalled, crewvars>>

\* tab3: the interview materials and their download button
Tab3 ==
    /\ pc = "tab3"
    /\ shown' = shown \cup
         (IF Exists(InterviewMaterials)
          THEN {Widget("markdown", "Top 10 Interview Questions", "", files[InterviewMaterials]),
                Widget("download_button", "Top_10_Interview_Questions.md", "",
                       files[InterviewMaterials])}
          ELSE {Widget("warning", "Interview materials not generated", "", Absent)})
    /\ pc' = "idle"
    /\ UNCHANGED <<rvars, procvars, run, GROQ_API_KEY, SERPER_API_KEY, form,
                   resume_path, written, crewCalled, crewvars>>

\* tab3: reading the file raises
Tab3ReadRaises ==
    /\ pc = "tab3"
    /\ Exists(InterviewMaterials)
    /\ shown' = shown \cup ExceptMessages("cannot read interview_materials.md")
    /\ pc' = "idle"
    /\ UNCHANGED <<rvars, procvars, run, GROQ_API_KEY, SERPER_API_KEY, form,
                   resume_path, written, crewCalled, crewvars>>

\* the working directory is not the script's alone: an output file is gone
\* by the time a tab looks for it (the else branches of os.path.exists)
FileRemoved ==
    /\ pc \in {"tab1", "tab2", "tab3"}
    /\ \E f \in {TailoredResume, InterviewMaterials} :
        /\ Exists(f)
        /\ files' = [files EXCEPT ![f] = Absent]
    /\ UNCHANGED <<rvars, secrets, environ, agents, peer, reqvars, crewvars>>

-----------------------------------------------------------------------------
(* A run of the same script in another session of the same process: it
   shares os.environ, the working directory and the st.cache_resource cache
   with this session's runs *)

\* the run number that marks what the other session wrote
PeerRun == MaxRuns + 1

\* what the language model returns to the other session
PeerTexts(t) ==
    IF t = "resume_strategy_task" THEN <<"#", SP, "z">> ELSE <<"q", "2">>

\* the other session's script run, with cv.pdf uploaded, the form filled and
\* the button pressed: lines 104-114, the upload save block, line 418, and,
\* when both keys are found, the call of run_crew up to the kickoff
PeerRerun ==
    /\ peer.pc = "waiting"
    /\ \E m \in {Models[1], Models[2]} :
        LET groq == get_api_key("GROQ_API_KEY")
            serper == get_api_key("SERPER_API_KEY")
        IN  /\ environ' = EnvAfterTop(groq, serper, m)
            /\ files' = [files EXCEPT ![ResumeFile("pdf")] = Text(PeerRun, "cv.pdf", <<>>)]
            /\ IF Truthy(groq) /\ Truthy(serper)
               THEN /\ agents' = create_agents(PeerRun)
                    /\ peer' = [pc |-> "crew"]
               ELSE /\ agents' = agents
                    /\ peer' = [pc |-> "ended"]
    /\ UNCHANGED <<rvars, secrets, reqvars, crewvars>>

\* a write that waits until no run of this session is in progress
PeerResumeDoneLocked ==
    /\ peer.pc = "crew"
    /\ pc = "idle"
    /\ files' = [files EXCEPT ![OutputFile("resume_strategy_task")] =
                    Text(PeerRun, "resume_strategy_task", PeerTexts("resume_strategy_task"))]
    /\ peer' = [peer EXCEPT !.pc = "resume_done"]
    /\ UNCHANGED <<rvars, secrets, environ, agents, reqvars, crewvars>>

\* the other session's resume task completes and writes its output file
PeerResumeDone ==
    /\ peer.pc = "crew"
    /\ files' = [files EXCEPT ![OutputFile("resume_strategy_task")] =
                    Text(PeerRun, "resume_strategy_task", PeerTexts("resume_strategy_task"))]
    /\ peer' = [peer EXCEPT !.pc = "resume_done"]
    /\ UNCHANGED <<rvars, secrets, environ, agents, reqvars, crewvars>>

\* the other session's interview task completes and writes its output file;
\* its tabs only read
PeerInterviewDone ==
    /\ peer.pc = "resume_done"
    /\ files' = [files EXCEPT ![OutputFile("interview_preparation_task")] =
                    Text(PeerRun, "interview_preparation_task",
                         PeerTexts("interview_preparation_task"))]
    /\ peer' = [peer EXCEPT !.pc = "ended"]
    /\ UNCHANGED <<rvars, secrets, environ, agents, reqvars, crewvars>>

\* a task of the other session raises: its run ends in the except clause
PeerFails ==
    /\ peer.pc \in {"crew", "resume_done"}
    /\ peer' = [peer EXCEPT !.pc = "ended"]
    /\ UNCHANGED <<rvars, secrets, environ, files, agents, reqvars, crewvars>>

-----------------------------------------------------------------------------
(* Specifications *)

EnvNames == KeyNames \cup {"OPENAI_MODEL_NAME"}

\* the script has not run yet
AInit ==
    /\ secrets \in
         {[available |-> FALSE, vals |-> [k \in KeyNames |-> NoValue]]}
         \cup {[available |-> TRUE, vals |-> v] : v \in [KeyNames -> {NoValue, "secret"}]}
    /\ environ \in {e \in [EnvNames -> {NoValue, "envval"}] : e["OPENAI_MODEL_NAME"] = NoValue}
    /\ files = [f \in FileNames |-> Absent]
    /\ agents = 0
    /\ peer = [pc |-> "waiting"]
    /\ pc = "idle"
    /\ run = 0
    /\ GROQ_API_KEY = NoValue
    /\ SERPER_API_KEY = NoValue
    /\ form = [uploaded_file |-> NoValue, job_posting_url |-> "", github_url |-> "",
               personal_writeup |-> "", model_choice |-> Models[1],
               process_button |-> FALSE]
    /\ resume_path = NoValue
    /\ shown = {}
    /\ written = {}
    /\ crewCalled = FALSE
    /\ task = NoTasks("pending")
    /\ out = NoTasks(Absent)
    /\ ctx = NoTasks(<<>>)
    /\ terr = NoTasks(NoValue)
    /\ order = <<>>

Init == AInit /\ RIdle

Next ==
    \/ Rerun
    \/ NoProcess
    \/ KeysMissing
    \/ ValidationError
    \/ CallRunCrew
    \/ \E t \in TaskNames : StartTask(t)
    \/ \E t \in TaskNames : FinishTask(t)
    \/ \E t \in TaskNames : FailTask(t)
    \/ KickoffRaises
    \/ KickoffReturns
    \/ Tab1
    \/ Tab1ReadRaises
    \/ Tab2
    \/ Rendering /\ AppRead
    \/ Rendering /\ AppParseLine
    \/ Rendering /\ AppBuild
    \/ Rendering /\ AppRaise
    \/ Tab2Returns
    \/ Tab3
    \/ Tab3ReadRaises
    \/ FileRemoved

\* the script: requests one after the other
Spec == Init /\ [][Next]_vars

\* both keys are in the secret store, as on a deployed server
SharedInit ==
    /\ Init
    /\ secrets.available /\ \A k \in KeyNames : secrets.vals[k] # NoValue
    /\ \A k \in KeyNames : environ[k] = NoValue

\* the steps of two sessions of one process, interleaved; with both keys
\* configured check_api_keys() never fails
SharedNext ==
    \/ run < MaxSharedRuns /\ Rerun
    \/ NoProcess
    \/ ValidationError
    \/ CallRunCrew
    \/ \E t \in TaskNames : StartTask(t)
    \/ \E t \in TaskNames : FinishTask(t)
    \/ \E t \in TaskNames : FailTask(t)
    \/ KickoffRaises
    \/ KickoffReturns
    \/ Tab1
    \/ Tab1ReadRaises
    \/ Tab2
    \/ Rendering /\ AppRead
    \/ Rendering /\ AppParseLine
    \/ Rendering /\ AppBuild
    \/ Rendering /\ AppRaise
    \/ Tab2Returns
    \/ Tab3
    \/ Tab3ReadRaises
    \/ FileRemoved
    \/ PeerRerun
    \/ PeerResumeDone
    \/ PeerInterviewDone
    \/ PeerFails

SpecShared == SharedInit /\ [][SharedNext]_vars

\* one call of a renderer on a markdown file
RInit ==
    /\ fn \in {"app", "gen"}
    /\ \/ fileState = "ok" /\ content \in Contents
       \/ fileState \in {"missing", "unreadable"} /\ content = <<>>
    /\ pcR = "start"
    /\ lines = <<>>
    /\ idx = 0
    /\ story = <<>>
    /\ result = None
    /\ rlog = {}
    /\ AInit
    /\ secrets.available /\ \A k \in KeyNames : secrets.vals[k] # NoValue
    /\ \A k \in KeyNames : environ[k] = NoValue

RNext ==
    \/ AppRead
    \/ AppParseLine
    \/ AppBuild
    \/ AppRaise
    \/ GenPrimary
    \/ GenPrimaryRaise
    \/ GenFallbackOpen
    \/ GenFallbackLine
    \/ GenFallbackBuild
    \/ GenFallbackRaise

SpecRender == RInit /\ [][RNext]_vars

-----------------------------------------------------------------------------
(* Claims about the renderers, checked under SpecRender *)

\* the grammar of the specification, in its priority order
GrammarKinds ==
    <<"Blank", "Title", "Heading", "SubHeading", "Bullet", "NumberedItem", "Plain">>

\* whether the stripped line l matches the i-th pattern of the grammar
Matches(i, l) ==
    CASE i = 1 -> l = <<>>
      [] i = 2 -> Len(l) >= 2 /\ l[1] = "#" /\ l[2] = SP
      [] i = 3 -> Len(l) >= 3 /\ l[1] = "#" /\ l[2] = "#" /\ l[3] = SP
      [] i = 4 -> Len(l) >= 4 /\ l[1] = "#" /\ l[2] = "#" /\ l[3] = "#" /\ l[4] = SP
      [] i = 5 -> Len(l) >= 2 /\ l[1] \in {"-", "*"} /\ l[2] = SP
      [] i = 6 -> \E k \in 1..Len(l) :
                    /\ \A j \in 1..k : l[j] \in Digits
                    /\ Len(l) >= k + 2 /\ l[k + 1] = "." /\ l[k + 2] = SP
      [] i = 7 -> TRUE

FirstMatch(l) ==
    CHOOSE i \in 1..Len(GrammarKinds) :
        Matches(i, l) /\ \A j \in 1..(i - 1) : ~Matches(j, l)

\* the flowables appended for line i
OfLine(i) == {k \in 1..Len(story) : story[k].src = i}

KindsInStory == {story[k].kind : k \in 1..Len(story)}

AppRendered == fn = "app" /\ pcR = "done" /\ result.kind = "pdf"

\* C1: every line the loop of app.py's markdown_to_ats_pdf has consumed is
\* classified, after stripping, by the first pattern of the grammar that
\* matches it (empty, '# ', '## ', '### ', '- ' or '* ', digits '. ', anything
\* else), and all the flowables appended for a line carry that one kind.
C1_FirstMatchWins ==
    (fn = "app" /\ pcR \in {"loop", "done"} /\ lines # <<>>) =>
        /\ \A k \in 1..Len(story) :
              story[k].kind = GrammarKinds[FirstMatch(Strip(lines[story[k].src]))]
        /\ \A i \in 1..idx :
              Cardinality({story[k].kind : k \in OfLine(i)}) = 1

\* C1 witness: a rendered input in which all seven kinds occurred
C1_Witness ==
    /\ AppRendered
    /\ content = AllPatterns
    /\ KindsInStory = {GrammarKinds[i] : i \in 1..Len(GrammarKinds)}

\* kind and text of each flowable, in order
Blocks == [k \in 1..Len(story) |-> <<story[k].kind, story[k].text>>]

JohnDoe == <<"J", "o", "h", "n", SP, "D", "o", "e">>
Experience == <<"E", "x", "p", "e", "r", "i", "e", "n", "c", "e">>
BuiltX == <<"B", "u", "i", "l", "t", SP, "X">>
BuiltY == <<"B", "u", "i", "l", "t", SP, "Y">>

\* the number of elements of kind kd in the story
CountKind(kd) == Cardinality({k \in 1..Len(story) : story[k].kind = kd})

\* C2 as stated: the story holds exactly one element per source line, in
\* source order, and nothing else; an input with every pattern once yields one
\* Block of each kind; Scenario A yields exactly the five Blocks Title, Blank,
\* Heading, Bullet, Bullet.
C2_OneBlockPerSourceLine ==
    (AppRendered /\ content # <<>>) =>
        /\ Len(story) = Len(SplitLines(content))
        /\ \A k \in 1..Len(story) : story[k].src = k
        /\ content = AllPatterns =>
              \A i \in 1..Len(GrammarKinds) : CountKind(GrammarKinds[i]) = 1
        /\ content = ScenarioA =>
              Blocks = << <<"Title", JohnDoe>>, <<"Blank", <<>> >>,
                          <<"Heading", Experience>>, <<"Bullet", BuiltX>>,
                          <<"Bullet", BuiltY>> >>

\* C2 as amended: the story holds, in source order, the flowables of every
\* segment of content.split('\n') (so an input that ends in a newline ends in
\* one more Blank spacer); a segment yields one flowable, except a '## ' line,
\* which yields a 0.15 inch spacer and then its Heading paragraph; a Bullet's
\* text starts with the bullet glyph. An input with every pattern once and no
\* final newline yields one paragraph (or Blank spacer) of each kind, and
\* Scenario A yields seven flowables: Title, Blank, spacer, Heading, Bullet,
\* Bullet, Blank.
C2_OneBlockPerSegment ==
    AppRendered =>
        /\ result.story = story
        /\ \A k \in 1..(Len(story) - 1) : story[k].src <= story[k + 1].src
        /\ {story[k].src : k \in 1..Len(story)} = 1..Len(SplitNL(content, <<>>))
        /\ \A i \in 1..Len(lines) :
              IF Matches(3, Strip(lines[i])) /\ ~Matches(2, Strip(lines[i]))
              THEN \E k \in 1..(Len(story) - 1) :
                      /\ OfLine(i) = {k, k + 1}
                      /\ story[k].flow = "Spacer" /\ story[k].style = "0.15*inch"
                      /\ story[k + 1].flow = "Paragraph"
              ELSE Cardinality(OfLine(i)) = 1
        /\ content = AllPatterns =>
              \A i \in 1..Len(GrammarKinds) :
                  Cardinality({k \in 1..Len(story) :
                                  /\ story[k].kind = GrammarKinds[i]
                                  /\ story[k].style # "0.15*inch"}) = 1
        /\ content = ScenarioA =>
              Blocks = << <<"Title", JohnDoe>>, <<"Blank", <<>> >>,
                          <<"Heading", <<>> >>, <<"Heading", Experience>>,
                          <<"Bullet", <<BULLET, SP>> \o BuiltX>>,
                          <<"Bullet", <<BULLET, SP>> \o BuiltY>>,
                          <<"Blank", <<>> >> >>

\* C2 witness: Scenario A rendered to its seven flowables
C2_Witness == AppRendered /\ content = ScenarioA /\ Len(story) = 7

\* a character of a word
IsWord(c) == c \notin {"#", "-", "*", "_", ".", SP, NL, BULLET}

\* the word characters of s, with the underscores that stand between two of
\* them (snake_case)
RECURSIVE Words(_, _)
Words(s, prev) ==
    IF s = <<>> THEN <<>>
    ELSE LET c == Head(s)
             inner == c = "_" /\ IsWord(prev) /\ Len(s) >= 2 /\ IsWord(s[2])
         IN  IF IsWord(c) \/ inner
             THEN <<c>> \o Words(Tail(s), c)
             ELSE Words(Tail(s), c)

\* whether p occurs in s
Contains(s, p) == \E j \in 0..Len(s) : StartsWith(From(s, j), p)

\* C3 as stated: every non-blank line yields exactly one paragraph; the text
\* of the paragraph keeps the words of the line, with the underscores inside
\* them, and keeps no '**' or '__' emphasis marker.
C3_RoundTrip ==
    AppRendered =>
        \A i \in 1..Len(lines) :
            Strip(lines[i]) # <<>> =>
                \E k \in 1..Len(story) :
                    /\ {j \in OfLine(i) : story[j].flow = "Paragraph"} = {k}
                    /\ Words(story[k].text, SP) = Words(Strip(lines[i]), SP)
                    /\ ~Contains(story[k].text, <<"*", "*">>)
                    /\ ~Contains(story[k].text, <<"_", "_">>)

PrimaryFailed ==
    \/ fn = "gen" /\ "print: Error generating PDF" \in rlog
    \/ fn = "app" /\ "st.error: Error generating PDF" \in rlog

IsSuffix(t, l) == Len(t) <= Len(l) /\ SubSeq(l, Len(l) - Len(t) + 1, Len(l)) = t

\* C8 as stated: whenever the primary layout engine fails on a readable file,
\* the call returns a document of the fallback renderer in which every
\* non-blank source line appears as text and at most three paragraph styles
\* are used.
C8_FallbackAlwaysRenders ==
    (pcR = "done" /\ fileState = "ok" /\ PrimaryFailed) =>
        /\ result.kind = "pdf"
        /\ \A i \in 1..Len(SplitLines(content)) :
              Strip(SplitLines(content)[i]) # <<>> =>
                  \E k \in 1..Len(result.story) :
                      /\ result.story[k].flow = "Paragraph"
                      /\ result.story[k].src = i
                      /\ result.story[k].text # <<>>
                      /\ IsSuffix(result.story[k].text, Strip(SplitLines(content)[i]))
        /\ Cardinality({result.story[k].style : k \in
                          {j \in 1..Len(result.story) :
                              result.story[j].flow = "Paragraph"}}) <= 3

-----------------------------------------------------------------------------
(* Claims about a script run, checked under Spec *)

\* the script run has ended and the process button was pressed in it
Processed == pc = "idle" /\ run > 0 /\ form.process_button

AllSupplied ==
    /\ form.uploaded_file # NoValue
    /\ form.job_posting_url # ""
    /\ form.github_url # ""
    /\ form.personal_writeup # ""

ErrorShown == \E m \in shown : m.w = "error"

\* a task has been handed to the language model
NetworkUsed == \E t \in TaskNames : task[t] # "pending"

\* C4 as stated: a run with the button pressed and no GROQ_API_KEY shows the
\* configuration error, never calls run_crew, and writes no file and uses no
\* network before it stops, the upload's resume.<ext> included.
C4_NothingBeforeAbort ==
    (Processed /\ ~Truthy(GROQ_API_KEY)) =>
        /\ Widget("error", "API keys not configured!", "", Absent) \in shown
        /\ ~crewCalled
        /\ ~NetworkUsed
        /\ written = {}

\* C5 as stated: with GROQ_API_KEY present, SERPER_API_KEY absent and all four
\* inputs supplied, a run with the button pressed calls run_crew.
C5_SearchKeyNotFatal ==
    (Processed /\ Truthy(GROQ_API_KEY) /\ ~Truthy(SERPER_API_KEY) /\ AllSupplied)
        => crewCalled

\* C6: run_crew is called only in a run whose four inputs are all non-empty,
\* and a run with the button pressed and an input missing ends with an error
\* on the page and run_crew not called.
C6_ValidationBlocksCrew ==
    /\ crewCalled => AllSupplied
    /\ (Processed /\ ~AllSupplied) => (ErrorShown /\ ~crewCalled /\ ~NetworkUsed)

\* C6 witness: keys configured, only the GitHub URL missing, its error shown
C6_Witness ==
    /\ Processed
    /\ check_api_keys
    /\ form.uploaded_file # NoValue /\ form.job_posting_url # ""
    /\ form.github_url = "" /\ form.personal_writeup # ""
    /\ Widget("error", "Please provide your GitHub profile URL", "", Absent) \in shown
    /\ ~crewCalled

RateLimit == "Error code: 429 rate limit"
EmptyResponse == "empty response from LLM"

\* the calls and fixed messages on a page, without the text put into them
Templates(S) == {<<m.w, m.name>> : m \in S}

\* C7 as stated: when the job-analysis task raises a rate-limit error and the
\* run ends with it, neither output file was written in the run, the resume
\* and interview tasks never started, and the page differs from the page of
\* another failure in more than the error text put into the message.
C7_RateLimitSpecificMessage ==
    (/\ Processed /\ crewCalled
     /\ task["research_task"] = "failed" /\ terr["research_task"] = RateLimit
     /\ ExceptMessages(RateLimit) \subseteq shown) =>
        /\ written \cap {TailoredResume, InterviewMaterials} = {}
        /\ task["resume_strategy_task"] = "pending"
        /\ task["interview_preparation_task"] = "pending"
        /\ Templates(shown) #
              Templates((shown \ ExceptMessages(RateLimit)) \cup ExceptMessages(EmptyResponse))

PdfOffered == \E m \in shown : m.w = "download_button" /\ m.name = "ATS_Tailored_Resume.pdf"

MarkdownOffered == \E m \in shown : m.w = "download_button" /\ m.name = TailoredResume

FailureReported == \E m \in shown : m.w \in {"error", "warning"}

\* tab2 is behind the run
AfterTab2 == pc = "tab3"

\* C9 as stated: whenever tab2 ends without a PDF, the renderer returned no
\* bytes, a failure is on the page, the PDF download is not offered and the
\* markdown download of the resume is offered.
C9_MarkdownStillOffered ==
    (AfterTab2 /\ ~PdfOffered) =>
        /\ result = None
        /\ FailureReported
        /\ MarkdownOffered

\* C9 as amended: when markdown_to_ats_pdf is called and fails (it cannot read
\* the file, or the layout engine raises; app.py has no fallback renderer) it
\* returns None, never the flowables laid out so far; st.error reports the
\* failure, the PDF download is not offered, and the markdown download that
\* tab1 offered stays on the page. When tailored_resume.md is missing when
\* tab2 looks for it, the renderer is not called, a warning is shown and the
\* PDF download is not offered; the markdown download is then on the page only
\* if the file still existed when tab1 ran. A PDF is offered only when the
\* renderer returned the complete document.
C9_RenderFailure ==
    /\ result.kind = "pdf" => (idx = Len(lines) /\ result.story = story /\ rlog = {})
    /\ fn = "app" /\ pcR = "done" /\ rlog # {} => result = None
    /\ (AfterTab2 /\ rlog # {}) =>
          /\ result = None
          /\ Widget("error", "st.error: Error generating PDF", "", Absent) \in shown
          /\ Widget("error", "Failed to generate PDF", "", Absent) \in shown
          /\ ~PdfOffered
          /\ MarkdownOffered
    /\ (AfterTab2 /\ rlog = {} /\ result = None) =>
          /\ Widget("warning", "Resume file not found", "", Absent) \in shown
          /\ ~PdfOffered
          /\ MarkdownOffered =>
                Widget("warning", "Resume markdown file not generated", "", Absent) \notin shown
    /\ PdfOffered => (result.kind = "pdf" /\ MarkdownOffered)

\* C9 witness: the layout engine raised after some lines were laid out, and
\* tab2 reported it
C9_Witness ==
    /\ AfterTab2
    /\ fileState = "ok" /\ rlog # {} /\ result = None
    /\ Widget("error", "Failed to generate PDF", "", Absent) \in shown
    /\ MarkdownOffered /\ ~PdfOffered

\* C10: the resume task is started only when the job-analysis and profiling
\* tasks are both done and have their outputs, and the interview task only
\* when the resume task is done and has its output, in whichever order the
\* two async tasks finish.
C10_StartsAfterResults ==
    /\ task["resume_strategy_task"] # "pending" =>
          /\ task["research_task"] = "done" /\ out["research_task"] # Absent
          /\ task["profile_task"] = "done" /\ out["profile_task"] # Absent
    /\ task["interview_preparation_task"] # "pending" =>
          /\ task["resume_strategy_task"] = "done"
          /\ out["resume_strategy_task"] # Absent

\* C10 witness: the two async tasks ran at the same time, profiling finished
\* first, and the resume task is running
C10_Witness ==
    /\ task["resume_strategy_task"] = "running"
    /\ order = <<"profile_task", "research_task">>

\* the texts a context holds, in order
ContextTexts(t) == [i \in 1..Len(ctx[t]) |-> ctx[t][i].text]

\* the tasks whose outputs a context holds, in order
ContextFrom(t) == [i \in 1..Len(ctx[t]) |-> ctx[t][i].by]

\* C11: once the resume task has started, its context is the whole output of
\* the job-analysis task followed by the whole output of the profiling task,
\* both of this run; once the interview task has started, its context is
\* those two followed by the whole resume output; in whichever order the two
\* async tasks finished.
C11_ContextInListOrder ==
    /\ task["resume_strategy_task"] # "pending" =>
          /\ ContextFrom("resume_strategy_task") = <<"research_task", "profile_task">>
          /\ ctx["resume_strategy_task"] = <<out["research_task"], out["profile_task"]>>
          /\ \A i \in 1..2 :
                /\ ctx["resume_strategy_task"][i].run = run
                /\ ctx["resume_strategy_task"][i].text
                      \in TaskTexts(ctx["resume_strategy_task"][i].by)
    /\ task["interview_preparation_task"] # "pending" =>
          /\ ContextFrom("interview_preparation_task")
                = <<"research_task", "profile_task", "resume_strategy_task">>
          /\ ctx["interview_preparation_task"]
                = <<out["research_task"], out["profile_task"], out["resume_strategy_task"]>>
          /\ \A i \in 1..3 :
                /\ ctx["interview_preparation_task"][i].run = run
                /\ ctx["interview_preparation_task"][i].text
                      \in TaskTexts(ctx["interview_preparation_task"][i].by)

\* C11 witness: profiling finished before job analysis, and the interview
\* task holds the three outputs with the job analysis first
C11_Witness ==
    /\ task["interview_preparation_task"] = "running"
    /\ order = <<"profile_task", "research_task", "resume_strategy_task">>
    /\ ContextTexts("interview_preparation_task")
          = <<<<"j", "o", "b">>, <<"m", "e">>, <<"#", SP, "a", NL, "-", SP, "b", NL>>>>

\* C12: a task with an output file has written it when it is done, so when
\* kickoff is about to return both files hold this run's outputs; and when
\* the interview task has failed after the resume task succeeded,
\* tailored_resume.md holds this run's resume and interview_materials.md was
\* not written by this run.
C12_FilesWrittenNoRollback ==
    /\ \A t \in TaskNames :
          (pc = "crew" /\ task[t] = "done" /\ OutputFile(t) # NoValue) =>
              /\ files[OutputFile(t)] = out[t]
              /\ OutputFile(t) \in written
    /\ (pc = "crew" /\ \A t \in TaskNames : task[t] = "done") =>
          /\ files[TailoredResume] = Text(run, "resume_strategy_task",
                                           out["resume_strategy_task"].text)
          /\ files[InterviewMaterials] = Text(run, "interview_preparation_task",
                                               out["interview_preparation_task"].text)
          /\ out["resume_strategy_task"].text \in TaskTexts("resume_strategy_task")
          /\ out["interview_preparation_task"].text \in TaskTexts("interview_preparation_task")
    /\ task["interview_preparation_task"] = "failed" =>
          /\ task["resume_strategy_task"] = "done"
          /\ files[TailoredResume] = out["resume_strategy_task"]
          /\ files[TailoredResume].run = run
          /\ TailoredResume \in written
          /\ InterviewMaterials \notin written
          /\ files[InterviewMaterials].run # run

\* C12 witness: the interview task failed and the error was reported; the
\* resume of this run is on disk beside the interview materials of an
\* earlier run
C12_Witness ==
    /\ pc = "idle"
    /\ task["interview_preparation_task"] = "failed"
    /\ files[TailoredResume].run = run
    /\ Exists(InterviewMaterials) /\ files[InterviewMaterials].run < run

\* the secret store holds an entry for name k
HasSecret(k) == secrets.available /\ secrets.vals[k] # NoValue

\* the value the script holds for key k after its lookup
KeyOf(k) == IF k = "GROQ_API_KEY" THEN GROQ_API_KEY ELSE SERPER_API_KEY

\* C13: after the script's lookup, each key is the secret store's value
\* whenever the store holds an entry for it, and is the environment
\* variable's value (None when unset) when the store has no entry or there is
\* no store; where both hold a value the key is the store's.
C13_SecretsBeforeEnvironment ==
    run > 0 =>
        \A k \in KeyNames :
            /\ HasSecret(k) => KeyOf(k) = secrets.vals[k] /\ KeyOf(k) = "secret"
            /\ ~HasSecret(k) => KeyOf(k) = environ[k] /\ KeyOf(k) \in {NoValue, "envval"}

\* C13 witness: one key came from the secret store, the other from the
\* environment because the store has no entry for it
C13_Witness ==
    /\ run > 0
    /\ HasSecret("GROQ_API_KEY") /\ GROQ_API_KEY = "secret"
    /\ secrets.available /\ ~HasSecret("SERPER_API_KEY") /\ SERPER_API_KEY = "envval"

-----------------------------------------------------------------------------
(* Claims about two sessions of one process, checked under SpecShared *)

\* the whole outputs the tasks of run r of this session can write
OutputsOf(r) == UNION {{Text(r, t, x) : x \in TaskTexts(t)} : t \in TaskNames}

\* the whole outputs the other session's tasks can write

PeerOutputs == {Text(PeerRun, t, PeerTexts(t)) : t \in TaskNames}

\* the page elements of the result tabs that carry a file's content
Displayed == {m \in shown : m.w \in {"markdown", "download_button"}}

\* this run's crew is done and its tabs have run to the end
Completed == pc = "idle" /\ crewCalled /\ \A t \in TaskNames : task[t] = "done"

\* C14: no write of an output file waits for the other session (the other
\* session's write is possible whenever its task is running, whatever this
\* run is doing, and this run's likewise), each write replaces the file,
\* and what the tabs display or render is the whole content of the file as
\* its last writer left it, this run's or the other session's.
C14_LastWriterWins ==
    /\ peer.pc = "crew" => ENABLED PeerResumeDone
    /\ peer.pc = "resume_done" => ENABLED PeerInterviewDone
    /\ \A t \in TaskNames : (pc = "crew" /\ task[t] = "running") => ENABLED FinishTask(t)
    /\ \A f \in {TailoredResume, InterviewMaterials} :
          files[f] \in {Absent} \cup UNION {OutputsOf(r) : r \in 1..run} \cup PeerOutputs
    /\ \A m \in Displayed :
          \/ m.data \in OutputsOf(run) \cup PeerOutputs
          \/ /\ m.name = "ATS_Tailored_Resume.pdf"
             /\ m.data.text \in TaskTexts("resume_strategy_task")
                                \cup {PeerTexts("resume_strategy_task")}
    /\ pc = "render" /\ fileState = "ok" =>
          content \in TaskTexts("resume_strategy_task") \cup {PeerTexts("resume_strategy_task")}

\* C14 witness: a run whose four tasks succeeded and which wrote
\* tailored_resume.md itself has displayed, and rendered to PDF, the resume
\* the other session wrote
C14_Witness ==
    /\ Completed
    /\ TailoredResume \in written
    /\ out["resume_strategy_task"].run = run
    /\ Widget("markdown", "Your Tailored Resume", "",
              Text(PeerRun, "resume_strategy_task", PeerTexts("resume_strategy_task")))
          \in shown
    /\ \E m \in shown :
          /\ m.w = "download_button" /\ m.name = "ATS_Tailored_Resume.pdf"
          /\ m.data.text = PeerTexts("resume_strategy_task")

\* C15 as stated: what a request's crew works with that it did not write
\* itself is at most the two output files: the agents were created by this
\* request, OPENAI_MODEL_NAME is the model this request selected, and the
\* saved upload named in the profiling task is the file this request saved.
C15_OnlyOutputFilesShared ==
    pc = "crew" =>
        /\ agents = run
        /\ environ["OPENAI_MODEL_NAME"] = form.model_choice
        /\ files[resume_path].run = run

-----------------------------------------------------------------------------
(* The two renderers compared, checked under SpecRender *)

\* the kinds of app.py's chain collapsed onto the styles of the fallback
Collapse(kind) ==
    CASE kind = "Title"      -> "Heading1"
      [] kind = "Heading"    -> "Heading2"
      [] kind = "SubHeading" -> "Heading3"
      [] kind = "Blank"      -> "None"
      [] OTHER               -> "Normal"

\* the paragraphs the fallback has appended for its line number i
FallbackParagraphs(i) ==
    {story[j] : j \in {k \in 1..Len(story) : story[k].src = i /\ story[k].flow = "Paragraph"}}

\* C16 as stated: for every line the fallback of utils/pdf_generator.py has
\* laid out, its paragraph has the kind app.py's chain gives the line,
\* collapsed onto the fallback's styles, and the text app.py's chain keeps
\* for the line; a line app.py's chain takes as Blank has no paragraph.
C16_SameGrammar ==
    (fn = "gen" /\ pcR \in {"floop", "done"}) =>
        \A i \in 1..idx :
            LET l == Strip(lines[i])
            IN  IF LineKind(l) = "Blank" THEN FallbackParagraphs(i) = {}
                ELSE \A p \in FallbackParagraphs(i) :
                        /\ p.kind = Collapse(LineKind(l))
                        /\ p.text = LineText(l)

-----------------------------------------------------------------------------
(* The model name, checked under Spec *)

\* C17: while run_crew runs, in any run of the session, OPENAI_MODEL_NAME is
\* the model selected in that run's form, whatever line 111 wrote at the top
\* of the run and whatever earlier runs selected.
C17_ModelIsSelection ==
    (crewCalled /\ pc = "crew") =>
        /\ environ["OPENAI_MODEL_NAME"] = form.model_choice
        /\ form.model_choice \in {Models[i] : i \in 1..Len(Models)}

\* C17 witness: run_crew is called in a later run with a model that is not
\* the default of line 111
C17_Witness ==
    /\ crewCalled /\ pc = "crew"
    /\ run > 1
    /\ Truthy(GROQ_API_KEY)
    /\ form.model_choice = "llama-3.1-8b-instant"
    /\ environ["OPENAI_MODEL_NAME"] = "llama-3.1-8b-instant"

====
